---- MODULE Spec2Model ----
(***************************************************************************)
(* Model of the serial session of MIZU Sensor Hub (src/serial_manager.py). *)
(*                                                                         *)
(* One SerialManager object, the caller's (main) thread that invokes its   *)
(* public methods, and the daemon threads started by                       *)
(* _start_data_monitoring, each running _monitor_data.  The caller's       *)
(* methods are split at every write to an attribute that _monitor_data     *)
(* reads (serial_connection, should_monitor_data) and at the close of the  *)
(* handle, so that the threads interleave as they do under the interpreter *)
(* lock; a method that has begun runs to its return before the caller      *)
(* begins another.                                                         *)
(*                                                                         *)
(* The pyserial calls (Serial(...), close, write, readline) are the        *)
(* environment: each either succeeds or raises serial.SerialException,     *)
(* the fault class the source handles.                                     *)
(***************************************************************************)
EXTENDS Integers, Sequences, FiniteSets, TLC

\* ------------------------------------------------------------------ bounds
MaxOpens == 2       \* serial handles that can be opened in one run
MaxLines == 2       \* non-empty lines the device sends in one run
MaxCalls == 3       \* calls of connect, disconnect, cleanup, send_command

\* --------------------------------------------------------------- constants
OS_WINDOWS == 1
OS_LINUX   == 2
OsTypes    == {OS_WINDOWS, OS_LINUX, 3}     \* 3: a selector outside the set

None    == 0
Handles == 1 .. MaxOpens
Threads == Handles        \* thread t is started by the connect that opened t
NoWrite == [handle |-> None, bytes |-> <<>>]
Callback == 1             \* the observer the application registers

\* Commands are strings, written as sequences of code points.
Commands == { <<65>>, <<233, 10>> }

VARIABLES
    serial_connection,      \* None or the handle held by the manager
    is_connected,
    should_monitor_data,
    data_monitoring_thread, \* None or the thread last started
    data_callback,          \* None or Callback
    handleState,            \* handle -> "unopened" | "open" | "closed"
    closeCount,             \* handle -> close() calls made on it
    pc,                     \* thread -> position in _monitor_data
    held,                   \* thread -> handle it is calling readline on
    incoming_data,          \* thread -> line it has read (0: none)
    received,               \* lines handed out by readline so far
    delivered,              \* lines passed to the callback, in call order
    tx,                     \* what the last send_command put on the wire
    callerPc,               \* position of the caller's thread
    call,                   \* the call in progress, or the last one returned
    calls,                  \* calls begun so far
    stopped,                \* thread -> a disconnect began while it ran
    readsAfterStop,         \* thread -> readline calls begun since then
    readFault,              \* thread -> its readline raised SerialException
    wire,                   \* the lines readline has returned, in order
    stored,                 \* lines whose Reading the database has taken
    skippedEmpty,           \* an empty read came after the first line was
                            \* delivered and before the second was read
    source,                 \* how the line given to the decoder was built
    line,                   \* the line given to _parse_sensor_data
    sensor_data,            \* what _parse_sensor_data returned for it
    parsed,                 \* _parse_sensor_data has returned
    db,                     \* the DatabaseManager: _initialized, the calls
                            \* save_sensor_data made on the database
                            \* session, what it returned
    scan                    \* the last scan_available_ports: the platform,
                            \* the candidates, what each probe met, the
                            \* list returned, the probe handles left open

sessionVars == << serial_connection, is_connected, should_monitor_data,
                  data_monitoring_thread, data_callback >>
handleVars  == << handleState, closeCount >>
workerVars  == << pc, held, incoming_data, received, delivered,
                  readsAfterStop, readFault >>
callerVars  == << callerPc, call, calls, tx >>
lineVars    == << wire, stored, skippedEmpty >>
decoderVars == << source, line, sensor_data, parsed, db >>
sessionAll  == << sessionVars, handleVars, workerVars, callerVars, stopped,
                  lineVars >>
vars == << sessionAll, decoderVars, scan >>

\* --------------------------------------------------------------- helpers
Started(t) == pc[t] # "unstarted"
Running(t) == pc[t] \notin {"unstarted", "done", "faulted", "crashed"}
NumStarted == Cardinality({t \in Threads : Started(t)})
NumOpened  == Cardinality({h \in Handles : handleState[h] # "unopened"})

\* str.encode(): UTF-8
EncodeChar(c) ==
    IF c < 128 THEN << c >>
    ELSE << 192 + (c \div 64), 128 + (c % 64) >>

RECURSIVE Encode(_)
Encode(s) == IF s = <<>> THEN <<>> ELSE EncodeChar(Head(s)) \o Encode(Tail(s))

Snapshot == [connected |-> is_connected,
             conn      |-> serial_connection,
             flag      |-> should_monitor_data,
             started   |-> NumStarted,
             opened    |-> NumOpened]

NewCall(name, arg, ok) ==
    [name |-> name, arg |-> arg, ok |-> ok, pre |-> Snapshot,
     again |-> (call.name = name), ret |-> "pending", closes |-> 0]

Return(c, value) == [c EXCEPT !.ret = value]

\* The caller begins a call.
Begin ==
    /\ calls < MaxCalls
    /\ calls' = calls + 1


\* ================================================================ Decoder
\* DatabaseManager._parse_sensor_data (src/database_manager.py) and the
\* Python primitives it is built from.  A str is a sequence of one-character
\* strings.  Python values are tagged tuples: None, a float m * 10^e with m
\* free of trailing zeros, an int, a str, a bool.  An int too large for a
\* float is << "int too large", its digits >>.
PyNone       == << "None" >>
PyFloat(m, e) == << "float", m, e >>
PyInt(n)     == << "int", n >>
PyStr(s)     == << "str", s >>
PyBool(b)    == << "bool", b >>
Inf          == << "float", "inf" >>
NegInf       == << "float", "-inf" >>
NaN          == << "float", "nan" >>
ValueError   == << "ValueError" >>
TypeError    == << "TypeError" >>
OverflowError == << "OverflowError" >>

Digits    == << "0", "1", "2", "3", "4", "5", "6", "7", "8", "9" >>
UpperCase == << "A", "B", "C", "D", "E", "F", "G", "H", "I", "J", "K", "L", "M",
                "N", "O", "P", "Q", "R", "S", "T", "U", "V", "W", "X", "Y", "Z" >>
LowerCase == << "a", "b", "c", "d", "e", "f", "g", "h", "i", "j", "k", "l", "m",
                "n", "o", "p", "q", "r", "s", "t", "u", "v", "w", "x", "y", "z" >>
Whitespace == { " ", "\t", "\n", "\r", "\f" }

IndexOf(c, seq) ==
    IF \E i \in 1 .. Len(seq) : seq[i] = c
    THEN CHOOSE i \in 1 .. Len(seq) : seq[i] = c
    ELSE 0

IsDigit(c) == IndexOf(c, Digits) > 0

\* s[i .. j], empty when j < i
Slice(s, i, j) == SubSeq(s, i, j)

\* index of the first occurrence of c in s at or after i, or 0
Find(s, c, i) ==
    IF \E k \in i .. Len(s) : s[k] = c
    THEN CHOOSE k \in i .. Len(s) : s[k] = c /\ \A j \in i .. k - 1 : s[j] # c
    ELSE 0

\* `c in s'
Contains(s, c) == Find(s, c, 1) > 0

\* str.startswith / str.endswith with a one-character argument
StartsWith(s, c) == Len(s) > 0 /\ s[1] = c
EndsWith(s, c)   == Len(s) > 0 /\ s[Len(s)] = c

\* str.strip()
RECURSIVE LStrip(_)
LStrip(s) ==
    IF s # << >> /\ Head(s) \in Whitespace THEN LStrip(Tail(s)) ELSE s

RECURSIVE RStrip(_)
RStrip(s) ==
    IF s # << >> /\ s[Len(s)] \in Whitespace
    THEN RStrip(SubSeq(s, 1, Len(s) - 1))
    ELSE s

Strip(s) == RStrip(LStrip(s))

\* str.lower() and str.upper() on ASCII letters
Lower(s) ==
    [i \in 1 .. Len(s) |->
        IF IndexOf(s[i], UpperCase) > 0 THEN LowerCase[IndexOf(s[i], UpperCase)]
        ELSE s[i]]
Upper(s) ==
    [i \in 1 .. Len(s) |->
        IF IndexOf(s[i], LowerCase) > 0 THEN UpperCase[IndexOf(s[i], LowerCase)]
        ELSE s[i]]

\* str.split(sep) with a one-character separator
RECURSIVE Split(_, _)
Split(s, sep) ==
    IF Find(s, sep, 1) = 0 THEN << s >>
    ELSE << Slice(s, 1, Find(s, sep, 1) - 1) >>
            \o Split(Slice(s, Find(s, sep, 1) + 1, Len(s)), sep)

\* str.split(sep, 1) of a str that contains sep
SplitOnce(s, sep) ==
    << Slice(s, 1, Find(s, sep, 1) - 1), Slice(s, Find(s, sep, 1) + 1, Len(s)) >>

AllDigits(s) == \A i \in 1 .. Len(s) : IsDigit(s[i])

RECURSIVE DigitsToInt(_)
DigitsToInt(s) ==
    IF s = << >> THEN 0
    ELSE 10 * DigitsToInt(SubSeq(s, 1, Len(s) - 1)) + (IndexOf(s[Len(s)], Digits) - 1)

\* the float m * 10^e, without trailing zeros in m
RECURSIVE Normal(_, _)
Normal(m, e) ==
    IF m = 0 THEN PyFloat(0, 0)
    ELSE IF m % 10 = 0 THEN Normal(m \div 10, e + 1)
    ELSE PyFloat(m, e)

\* [+-]?digits, as the exponent of a float literal
IsExponent(s) ==
    LET body == IF s # << >> /\ Head(s) \in {"+", "-"} THEN Tail(s) ELSE s
    IN  body # << >> /\ AllDigits(body)

ExponentVal(s) ==
    IF Head(s) = "-" THEN 0 - DigitsToInt(Tail(s))
    ELSE IF Head(s) = "+" THEN DigitsToInt(Tail(s))
    ELSE DigitsToInt(s)

\* float(str): surrounding whitespace, a sign, then inf, infinity, nan or
\* digits with an optional point and exponent; ValueError otherwise.
\* (Underscores between digits are not in the alphabet of the inputs.)
\* The digits before and after the point, and the exponent:
FloatOfParts(neg, ipart, fpart, expo) ==
    IF /\ AllDigits(ipart) /\ AllDigits(fpart)
       /\ Len(ipart) + Len(fpart) > 0
       /\ IsExponent(expo)
    THEN Normal(DigitsToInt(ipart \o fpart) * (IF neg THEN 0 - 1 ELSE 1),
                ExponentVal(expo) - Len(fpart))
    ELSE ValueError

\* the mantissa, with its point at ppos (0: none)
FloatOfMantissa(neg, mant, ppos, expo) ==
    FloatOfParts(neg,
                 IF ppos > 0 THEN Slice(mant, 1, ppos - 1) ELSE mant,
                 IF ppos > 0 THEN Slice(mant, ppos + 1, Len(mant)) ELSE << >>,
                 expo)

\* the text after the sign, with its exponent mark at epos (0: none)
FloatOfDigits(neg, u, epos) ==
    FloatOfMantissa(neg,
                    IF epos > 0 THEN Slice(u, 1, epos - 1) ELSE u,
                    Find(IF epos > 0 THEN Slice(u, 1, epos - 1) ELSE u, ".", 1),
                    IF epos > 0 THEN Slice(u, epos + 1, Len(u)) ELSE << "0" >>)

FloatOfUnsigned(neg, u) ==
    IF Lower(u) \in { << "i", "n", "f" >>,
                      << "i", "n", "f", "i", "n", "i", "t", "y" >> }
    THEN IF neg THEN NegInf ELSE Inf
    ELSE IF Lower(u) = << "n", "a", "n" >> THEN NaN
    ELSE FloatOfDigits(neg, u, IF Find(u, "e", 1) > 0 THEN Find(u, "e", 1)
                               ELSE Find(u, "E", 1))

FloatOfStripped(t) ==
    FloatOfUnsigned(t # << >> /\ Head(t) = "-",
                    IF t # << >> /\ Head(t) \in {"+", "-"} THEN Tail(t) ELSE t)

FloatOfStr(str) == FloatOfStripped(Strip(str))

\* ----------------------------------------------------------- _safe_float
RECURSIVE IntToStr(_)
IntToStr(n) ==
    IF n < 0 THEN << "-" >> \o IntToStr(0 - n)
    ELSE IF n < 10 THEN << Digits[n + 1] >>
    ELSE IntToStr(n \div 10) \o << Digits[(n % 10) + 1] >>

\* float(value) for the values json.loads produces
FloatOf(value) ==
    CASE value[1] = "str"   -> FloatOfStr(value[2])
      [] value[1] = "int"   -> Normal(value[2], 0)
      [] value[1] = "float" -> value
      [] value[1] = "bool"  -> IF value[2] THEN PyFloat(1, 0) ELSE PyFloat(0, 0)
      [] value[1] = "int too large" -> OverflowError
      [] OTHER              -> TypeError

\* Line 225: what _safe_float returns when float() raises.
OnFloatError_zero == PyFloat(0, 0)

OnFloatError == PyNone

\* Lines 218-225.
\* the except clause of lines 224-225
Caught(f) == IF f \in {ValueError, TypeError} THEN OnFloatError ELSE f

safe_float(value) == IF value = PyNone THEN PyNone ELSE Caught(FloatOf(value))

\* str(value) for the values json.loads produces (a float is not rendered:
\* no input gives device_id a float)
StrOf(value) ==
    CASE value[1] = "str"  -> value[2]
      [] value[1] = "int"  -> IntToStr(value[2])
      [] value[1] = "bool" -> IF value[2] THEN << "T", "r", "u", "e" >>
                              ELSE << "F", "a", "l", "s", "e" >>
      [] value[1] = "None" -> << "N", "o", "n", "e" >>
      [] value[1] = "int too large" -> value[2]
      [] OTHER             -> << "?" >>

\* ------------------------------------------------------------- json.loads
\* json.loads on an object whose values are strings without escapes,
\* numbers and the literals null, true, false, NaN, Infinity, -Infinity.
\* (Nested objects and arrays are not in the alphabet of the inputs.)
\* A parse is [ok, val, next]: success, the value, the index after it.
JsonFail == [ok |-> FALSE, val |-> PyNone, next |-> 0]
JsonOk(v, n) == [ok |-> TRUE, val |-> v, next |-> n]

RECURSIVE SkipWs(_, _)
SkipWs(s, i) == IF i <= Len(s) /\ s[i] \in {" ", "\t", "\n", "\r"} THEN SkipWs(s, i + 1) ELSE i

At(s, i) == IF i >= 1 /\ i <= Len(s) THEN s[i] ELSE "EOF"

HasPrefix(s, i, lit) ==
    i + Len(lit) - 1 <= Len(s) /\ SubSeq(s, i, i + Len(lit) - 1) = lit

\* the index of the last digit of the run of digits that begins at i (i - 1
\* when s[i] is not a digit)
DigitRunEnd(s, i) ==
    IF \E k \in i .. Len(s) : ~IsDigit(s[k])
    THEN (CHOOSE k \in i .. Len(s) :
             ~IsDigit(s[k]) /\ \A j \in i .. k - 1 : IsDigit(s[j])) - 1
    ELSE IF i > Len(s) THEN i - 1 ELSE Len(s)

\* float(int) raises OverflowError from 2^1024 on, a number of 309 digits:
\* every int of more digits is too large.  (The inputs hold no int of 10 to
\* 309 digits.)
MaxFloatDigits == 309

JsonStringTo(s, i, close) ==
    IF close = 0 THEN JsonFail
    ELSE IF \E k \in i + 1 .. close - 1 : s[k] \in {"\\", "\n", "\t", "\r", "\f"}
    THEN JsonFail
    ELSE JsonOk(PyStr(Slice(s, i + 1, close - 1)), close + 1)

JsonString(s, i) == JsonStringTo(s, i, Find(s, "\"", i + 1))

\* a number from index i: d0 is its first digit, iend the last digit of the
\* integer part, fend of the fraction, eend of the exponent
JsonIntegerEnd(s, d0) == IF At(s, d0) = "0" THEN d0 ELSE DigitRunEnd(s, d0)

JsonFractionEnd(s, iend) ==
    IF At(s, iend + 1) = "." /\ IsDigit(At(s, iend + 2))
    THEN DigitRunEnd(s, iend + 2) ELSE iend

JsonExponentEnd(s, fend) ==
    IF /\ At(s, fend + 1) \in {"e", "E"}
       /\ IsDigit(At(s, IF At(s, fend + 2) \in {"+", "-"} THEN fend + 3 ELSE fend + 2))
    THEN DigitRunEnd(s, IF At(s, fend + 2) \in {"+", "-"} THEN fend + 3 ELSE fend + 2)
    ELSE fend

JsonNumberOf(s, i, d0, iend, eend) ==
    IF iend < d0 THEN JsonFail
    ELSE IF eend > iend THEN JsonOk(FloatOfStr(Slice(s, i, eend)), eend + 1)
    ELSE IF iend - d0 + 1 > MaxFloatDigits
    THEN JsonOk(<< "int too large", Slice(s, i, iend) >>, eend + 1)
    ELSE JsonOk(PyInt(DigitsToInt(Slice(s, d0, iend)) * (IF d0 > i THEN 0 - 1 ELSE 1)),
                eend + 1)

JsonNumberFrom(s, i, d0, iend) ==
    JsonNumberOf(s, i, d0, iend, JsonExponentEnd(s, JsonFractionEnd(s, iend)))

JsonNumberAfterSign(s, i, d0) == JsonNumberFrom(s, i, d0, JsonIntegerEnd(s, d0))

JsonNumber(s, i) == JsonNumberAfterSign(s, i, IF At(s, i) = "-" THEN i + 1 ELSE i)

JsonLiteral(s, i, lit, v) ==
    IF HasPrefix(s, i, lit) THEN JsonOk(v, i + Len(lit)) ELSE JsonFail

JsonValue(s, i) ==
    CASE At(s, i) = "\"" -> JsonString(s, i)
      [] At(s, i) = "-" /\ HasPrefix(s, i, << "-", "I", "n", "f", "i", "n", "i", "t", "y" >>)
                         -> JsonOk(NegInf, i + 9)
      [] At(s, i) = "n" -> JsonLiteral(s, i, << "n", "u", "l", "l" >>, PyNone)
      [] At(s, i) = "t" -> JsonLiteral(s, i, << "t", "r", "u", "e" >>, PyBool(TRUE))
      [] At(s, i) = "f" -> JsonLiteral(s, i, << "f", "a", "l", "s", "e" >>, PyBool(FALSE))
      [] At(s, i) = "N" -> JsonLiteral(s, i, << "N", "a", "N" >>, NaN)
      [] At(s, i) = "I" -> JsonLiteral(s, i, << "I", "n", "f", "i", "n", "i", "t", "y" >>, Inf)
      [] OTHER          -> JsonNumber(s, i)

\* the members of an object from the first key at i, as << key, value >>
\* pairs in order: after a value, after a key, and from the key
RECURSIVE JsonMembers(_, _, _)
JsonAfterValue(s, more, after) ==
    IF At(s, after) = "," THEN JsonMembers(s, SkipWs(s, after + 1), more)
    ELSE IF At(s, after) = "}" THEN JsonOk(more, after + 1)
    ELSE JsonFail

JsonWithValue(s, acc, key, v) ==
    IF ~v.ok THEN JsonFail
    ELSE JsonAfterValue(s, Append(acc, << key.val[2], v.val >>), SkipWs(s, v.next))

JsonAfterKey(s, acc, key, colon) ==
    IF At(s, colon) # ":" THEN JsonFail
    ELSE JsonWithValue(s, acc, key, JsonValue(s, SkipWs(s, colon + 1)))

JsonWithKey(s, acc, key) ==
    IF ~key.ok THEN JsonFail ELSE JsonAfterKey(s, acc, key, SkipWs(s, key.next))

JsonMembers(s, i, acc) ==
    IF At(s, i) # "\"" THEN JsonFail ELSE JsonWithKey(s, acc, JsonString(s, i))

\* json.loads of a str that begins with "{": the members, or a failure
\* (json.JSONDecodeError)
JsonObject(s, first) ==
    IF At(s, first) = "}" THEN JsonOk(<< >>, first + 1)
    ELSE JsonMembers(s, first, << >>)

JsonWhole(s, obj) ==
    IF obj.ok /\ SkipWs(s, obj.next) = Len(s) + 1 THEN obj ELSE JsonFail

JsonLoads(s) == JsonWhole(s, JsonObject(s, SkipWs(s, 2)))

\* dict.get(key, default); of members with the same key the last one counts
DictGet(members, key, default) ==
    LET hits == {k \in 1 .. Len(members) : members[k][1] = key}
    IN  IF hits = {} THEN default
        ELSE members[CHOOSE k \in hits : \A l \in hits : l <= k][2]

\* ---------------------------------------------------------------- formats
\* The keys of a line and the fields of the parsed dict they set, in the
\* order of the positional formats.
K_device_id == << "d", "e", "v", "i", "c", "e", "_", "i", "d" >>
K_unknown == << "u", "n", "k", "n", "o", "w", "n" >>

Keys ==
    << K_device_id,
       << "a", "m", "b", "i", "e", "n", "t", "_", "t", "e", "m", "p" >>,
       << "h", "u", "m", "i", "d", "i", "t", "y" >>,
       << "s", "o", "i", "l", "_", "m", "o", "i", "s", "t", "u", "r", "e" >>,
       << "s", "o", "i", "l", "_", "t", "e", "m", "p" >>,
       << "w", "i", "n", "d", "_", "s", "p", "e", "e", "d" >>,
       << "l", "o", "n", "g", "i", "t", "u", "d", "e" >>,
       << "l", "a", "t", "i", "t", "u", "d", "e" >> >>
Fields == << "device_id", "ambient_temperature", "humidity", "soil_moisture", "soil_temperature", "wind_speed", "longitude", "latitude" >>
SensorFields == { Fields[k] : k \in 2 .. 8 }

\* the key that sets a field
KeyOf(field) == Keys[IndexOf(field, Fields)]


\* dicts are functions from field names; this is d[k] = v
Put(d, k, v) == [x \in DOMAIN d \cup {k} |-> IF x = k THEN v ELSE d[x]]

\* Lines 118-136.  The key that parse_json_format reads for a field.
JsonKey_copy_paste(field) ==
    IF field = "soil_temperature" THEN KeyOf("soil_moisture") ELSE KeyOf(field)

JsonKey(field) == KeyOf(field)

\* Lines 135-136: what parse_json_format returns when json.loads, or
\* anything after it, raises.
OnJsonError_reraise == [x \in {"raised", "args"} |-> "Exception"]

OnJsonError == PyNone

\* lines 124-134, of what json.loads returned; an exception that leaves
\* _safe_float reaches the except clause of line 135
JsonDict(data) ==
    IF ~data.ok THEN OnJsonError
    ELSE LET d == [f \in {Fields[k] : k \in 1 .. 8} \cup {"transmitted"} |->
                    IF f = "transmitted" THEN PyBool(FALSE)
                    ELSE IF f = "device_id"
                    THEN PyStr(StrOf(DictGet(data.val, K_device_id, PyStr(K_unknown))))
                    ELSE safe_float(DictGet(data.val, JsonKey(f), PyNone))]
         IN  IF \E f \in DOMAIN d : d[f] = OverflowError THEN OnJsonError ELSE d

parse_json_format(data_string) == JsonDict(JsonLoads(data_string))

\* Line 142: the parts a delimited line needs.
MinCsvParts_four == 5 - 1

MinCsvParts == 5

\* Lines 138-156.
CsvDict(parts) ==
    IF Len(parts) >= MinCsvParts
    THEN [f \in {Fields[k] : k \in 1 .. 8} \cup {"transmitted"} |->
            IF f = "transmitted" THEN PyBool(FALSE)
            ELSE IF f = "device_id" THEN PyStr(Strip(parts[1]))
            ELSE IF Len(parts) >= IndexOf(f, Fields)
            THEN safe_float(PyStr(parts[IndexOf(f, Fields)]))
            ELSE PyNone]
    ELSE PyNone

parse_csv_format(data_string) == CsvDict(Split(data_string, ","))

\* Line 167: the key of a pair as it is compared.
NormalKey_as_written(key) == Strip(key)

NormalKey(key) == Lower(Strip(key))

\* Line 188: the test a key=value dict must pass.
KeyValueValid_either(data) ==
    "device_id" \in DOMAIN data \/ DOMAIN data \cap SensorFields # {}

KeyValueValid(data) ==
    "device_id" \in DOMAIN data /\ DOMAIN data \cap SensorFields # {}

\* Lines 164-185: the loop over the pairs.
RECURSIVE KeyValuePairs(_, _)
\* lines 170-185: the pair with key number n (0: not a known key)
KeyValueSet(pairs, data, n, value) ==
    IF n = 0 THEN KeyValuePairs(pairs, data)
    ELSE IF n = 1 THEN KeyValuePairs(pairs, Put(data, "device_id", PyStr(value)))
    ELSE KeyValuePairs(pairs, Put(data, Fields[n], safe_float(PyStr(value))))

\* lines 166-168
KeyValuePair(pairs, data, kv) ==
    KeyValueSet(pairs, data, IndexOf(NormalKey(kv[1]), Keys), Strip(kv[2]))

KeyValuePairs(pairs, data) ==
    IF pairs = << >> THEN data
    ELSE IF ~Contains(Head(pairs), "=") THEN KeyValuePairs(Tail(pairs), data)
    ELSE KeyValuePair(Tail(pairs), data, SplitOnce(Head(pairs), "="))

\* lines 187-194
KeyValueDict(data) ==
    IF KeyValueValid(data) THEN Put(data, "transmitted", PyBool(FALSE))
    ELSE PyNone

\* Lines 158-194.
parse_key_value_format(data_string) ==
    KeyValueDict(KeyValuePairs(Split(data_string, ","), [k \in {} |-> PyNone]))

\* Line 200: re.findall(r'-?\d+\.?\d*', s) from index i on.
RECURSIVE FindNumbers(_, _)
FindNumbers(s, i) ==
    LET d0   == IF At(s, i) = "-" THEN i + 1 ELSE i
        iend == DigitRunEnd(s, d0)
        pend == IF At(s, iend + 1) = "." THEN iend + 1 ELSE iend
        fend == IF IsDigit(At(s, pend + 1)) THEN DigitRunEnd(s, pend + 1) ELSE pend
    IN  IF i > Len(s) THEN << >>
        ELSE IF iend < d0 THEN FindNumbers(s, i + 1)
        ELSE << Slice(s, i, fend) >> \o FindNumbers(s, fend + 1)

\* Line 202: the numbers a generic line needs.
MinNumbers_three == 4 - 1

MinNumbers == 4

\* Lines 196-216.
GenericDict(numbers) ==
    IF Len(numbers) >= MinNumbers
    THEN [f \in {Fields[k] : k \in 1 .. 8} \cup {"transmitted"} |->
            IF f = "transmitted" THEN PyBool(FALSE)
            ELSE IF f = "device_id" THEN PyStr(K_unknown)
            ELSE IF Len(numbers) >= IndexOf(f, Fields) - 1
            THEN safe_float(PyStr(numbers[IndexOf(f, Fields) - 1]))
            ELSE PyNone]
    ELSE PyNone

parse_generic_format(data_string) == GenericDict(FindNumbers(data_string, 1))

\* Lines 104-116: the format that owns a stripped line.
Classify_comma_first(s) ==
    IF StartsWith(s, "{") /\ EndsWith(s, "}") THEN "json"
    ELSE IF Contains(s, ",") THEN "csv"
    ELSE IF Contains(s, "=") THEN "key_value"
    ELSE "generic"

Classify(s) ==
    IF StartsWith(s, "{") /\ EndsWith(s, "}") THEN "json"
    ELSE IF Contains(s, "=") THEN "key_value"
    ELSE IF Contains(s, ",") THEN "csv"
    ELSE "generic"

\* Lines 86-116.
parse_stripped(s) ==
    CASE Classify(s) = "json"      -> parse_json_format(s)
      [] Classify(s) = "key_value" -> parse_key_value_format(s)
      [] Classify(s) = "csv"       -> parse_csv_format(s)
      [] OTHER                     -> parse_generic_format(s)

parse_sensor_data(data_string) == parse_stripped(Strip(data_string))

\* ----------------------------------------------------------------- inputs
\* The lines the decoder is run on.  A source says how a line is put
\* together, so that a claim can speak of the line with one key or one value
\* changed; Render gives the line itself.
MaxPairs  == 2      \* pairs of a key=value line, members of an object
MaxFields == 8      \* fields of a delimited line, words of a generic line

RECURSIVE Join(_, _)
Join(parts, sep) ==
    IF parts = << >> THEN << >>
    ELSE IF Len(parts) = 1 THEN parts[1]
    ELSE parts[1] \o sep \o Join(Tail(parts), sep)

\* the k-th value of a positional line (test_database.py, line 42)
Tokens == << << "T", "2" >>,
            << "2", "6", ".", "1" >>,
            << "5", "8", ".", "9" >>,
            << "4", "2", ".", "3" >>,
            << "2", "3", ".", "5" >>,
            << "4", ".", "8" >>,
            << "-", "1", "2", "2", ".", "4", "1", "9", "4" >>,
            << "3", "7", ".", "7", "7", "4", "9" >> >>
NotANumber == << "a", "b", "c" >>

\* the pairs of the key=value lines, as << key, value >>
KvItems == {
    << << "d", "e", "v", "i", "c", "e", "_", "i", "d" >>, << "T", "3" >> >>,
    << << "D", "E", "V", "I", "C", "E", "_", "I", "D" >>, << "T", "3" >> >>,
    << << "a", "m", "b", "i", "e", "n", "t", "_", "t", "e", "m", "p" >>, << "2", "4", ".", "8" >> >>,
    << << "h", "u", "m", "i", "d", "i", "t", "y" >>, << "6", "2", ".", "1" >> >>,
    << << " ", "H", "u", "m", "i", "d", "i", "t", "y", " " >>, << " ", "5", "5", " " >> >>,
    << << "s", "o", "i", "l", "_", "m", "o", "i", "s", "t", "u", "r", "e" >>, << "4", "8", ".", "2" >> >>,
    << << "s", "o", "i", "l", "_", "t", "e", "m", "p" >>, << "2", "1", ".", "9" >> >>,
    << << "S", "o", "i", "l", "_", "T", "e", "m", "p" >>, << "a", "b", "c" >> >>,
    << << "w", "i", "n", "d", "_", "s", "p", "e", "e", "d" >>, << "6", ".", "1" >> >>,
    << << "l", "o", "n", "g", "i", "t", "u", "d", "e" >>, << "-", "1", "2", "2", ".", "4", "1", "9", "4" >> >>,
    << << "l", "a", "t", "i", "t", "u", "d", "e" >>, << "3", "7", ".", "7", "7", "4", "9" >> >>,
    << << "f", "o", "o" >>, << "1" >> >>,
    << << "h", "u", "m", "i", "d", "i", "t", "y" >>, << >> >>,
    << << "n", "o", "t", "e" >>, << "a", "=", "b" >> >> }

\* the members of the structured-object lines, as << key, value text >>
JsonItems == {
    << << "d", "e", "v", "i", "c", "e", "_", "i", "d" >>, << "\"", "T", "1", "\"" >> >>,
    << << "a", "m", "b", "i", "e", "n", "t", "_", "t", "e", "m", "p" >>, << "2", "5", ".", "5" >> >>,
    << << "h", "u", "m", "i", "d", "i", "t", "y" >>, << "6", "0", ".", "2" >> >>,
    << << "s", "o", "i", "l", "_", "m", "o", "i", "s", "t", "u", "r", "e" >>, << "4", "5" >> >>,
    << << "s", "o", "i", "l", "_", "t", "e", "m", "p" >>, << "-", "2", ".", "5", "e", "1" >> >>,
    << << "w", "i", "n", "d", "_", "s", "p", "e", "e", "d" >>, << "5", ".", "2" >> >>,
    << << "l", "o", "n", "g", "i", "t", "u", "d", "e" >>, << "-", "1", "2", "2", ".", "4", "1", "9", "4" >> >>,
    << << "l", "a", "t", "i", "t", "u", "d", "e" >>, << "3", "7", ".", "7", "7", "4", "9" >> >>,
    << << "f", "o", "o" >>, << "1" >> >>,
    << << "h", "u", "m", "i", "d", "i", "t", "y" >>, << "\"", "a", "b", "c", "\"" >> >>,
    << << "h", "u", "m", "i", "d", "i", "t", "y" >>, << "n", "u", "l", "l" >> >>,
    << << "H", "u", "m", "i", "d", "i", "t", "y" >>, << "1" >> >>,
    << << "w", "i", "n", "d", "_", "s", "p", "e", "e", "d" >>, << "\"", "6", ".", "5", "\"" >> >>,
    << << "h", "u", "m", "i", "d", "i", "t", "y" >>, << >> >> }

\* lines given as they are
RawLines == {
    << "g", "a", "r", "b", "a", "g", "e" >>,
    << >>,
    << "{", "}" >>,
    << "{", "1", " ", "2", " ", "3", " ", "4", "}" >>,
    << "{", "T", "2", ",", "2", "6", ".", "1", ",", "5", "8", ".", "9", ",", "4", "2", ".", "3", ",", "2", "3", ".", "5", "}" >>,
    << "x", "=", "1", ",", "2", "6", ".", "1", ",", "5", "8", ".", "9", ",", "4", "2", ".", "3", ",", "2", "3", ".", "5" >>,
    << "1", ".", "2", ".", "3", " ", "4", " ", "5" >>,
    << "-", "5", "-", "6", " ", "7", " ", "-", "8", "." >>,
    << "5", ".", " ", "6", ".", " ", "7", "." >>,
    << "{", "\"", "d", "e", "v", "i", "c", "e", "_", "i", "d", "\"", ":", " ", "\"", "T", "1", "\"", "}", " ", "x", "}" >>,
    << "{", "d", "e", "v", "i", "c", "e", "_", "i", "d", ":", " ", "\"", "T", "1", "\"", "}" >>,
    << "{", "\"", "h", "u", "m", "i", "d", "i", "t", "y", "\"", ":", " ", "6", "0", ".", "2", ",", "}" >>,
    << "{", "\"", "h", "u", "m", "i", "d", "i", "t", "y", "\"", ":", " ", "0", "0", "7", "}" >>,
    << "d", "e", "v", "i", "c", "e", "_", "i", "d", "=", "T", "3", ",", "j", "u", "n", "k", ",", "h", "u", "m", "i", "d", "i", "t", "y", "=", "1" >>,
    << "=", ",", "=" >>,
    << "{", "\"", "h", "u", "m", "i", "d", "i", "t", "y", "\"", ":", " " >>
        \o [i \in 1 .. MaxFloatDigits + 1 |-> IF i = 1 THEN "1" ELSE "0"] \o << "}" >>,
    << "{", "\"", "d", "e", "v", "i", "c", "e", "_", "i", "d", "\"", ":", " " >>
        \o [i \in 1 .. MaxFloatDigits + 1 |-> IF i = 1 THEN "1" ELSE "0"] \o << "}" >>,
    << "T", "E", "S", "T", "0", "0", "4", " ", "2", "7", ".", "3", " ", "5", "5", ".", "6", " ", "3", "9", ".", "7", " ", "2", "4", ".", "2", " ", "3", ".", "9", " ", "-", "1", "2", "2", ".", "4", "1", "9", "4", " ", "3", "7", ".", "7", "7", "4", "9" >> }

\* the lines of test_database.py with all eight keys (lines 37 and 47)
FullKvItems == <<
    << << "d", "e", "v", "i", "c", "e", "_", "i", "d" >>, << "T", "E", "S", "T", "0", "0", "3" >> >>,
    << << "a", "m", "b", "i", "e", "n", "t", "_", "t", "e", "m", "p" >>, << "2", "4", ".", "8" >> >>,
    << << "h", "u", "m", "i", "d", "i", "t", "y" >>, << "6", "2", ".", "1" >> >>,
    << << "s", "o", "i", "l", "_", "m", "o", "i", "s", "t", "u", "r", "e" >>, << "4", "8", ".", "2" >> >>,
    << << "s", "o", "i", "l", "_", "t", "e", "m", "p" >>, << "2", "1", ".", "9" >> >>,
    << << "w", "i", "n", "d", "_", "s", "p", "e", "e", "d" >>, << "6", ".", "1" >> >>,
    << << "l", "o", "n", "g", "i", "t", "u", "d", "e" >>, << "-", "1", "2", "2", ".", "4", "1", "9", "4" >> >>,
    << << "l", "a", "t", "i", "t", "u", "d", "e" >>, << "3", "7", ".", "7", "7", "4", "9" >> >> >>
FullJsonItems == <<
    << << "d", "e", "v", "i", "c", "e", "_", "i", "d" >>, << "\"", "T", "E", "S", "T", "0", "0", "1", "\"" >> >>,
    << << "a", "m", "b", "i", "e", "n", "t", "_", "t", "e", "m", "p" >>, << "2", "5", ".", "5" >> >>,
    << << "h", "u", "m", "i", "d", "i", "t", "y" >>, << "6", "0", ".", "2" >> >>,
    << << "s", "o", "i", "l", "_", "m", "o", "i", "s", "t", "u", "r", "e" >>, << "4", "5", ".", "8" >> >>,
    << << "s", "o", "i", "l", "_", "t", "e", "m", "p" >>, << "2", "2", ".", "1" >> >>,
    << << "w", "i", "n", "d", "_", "s", "p", "e", "e", "d" >>, << "5", ".", "2" >> >>,
    << << "l", "o", "n", "g", "i", "t", "u", "d", "e" >>, << "-", "1", "2", "2", ".", "4", "1", "9", "4" >> >>,
    << << "l", "a", "t", "i", "t", "u", "d", "e" >>, << "3", "7", ".", "7", "7", "4", "9" >> >> >>

SeqsUpTo(S, n) == UNION { [1 .. k -> S] : k \in 0 .. n }

Sources ==
    [fmt : {"key_value"}, items : (SeqsUpTo(KvItems, MaxPairs) \ {<< >>}) \cup {FullKvItems},
     pad : {FALSE}]
    \cup [fmt : {"json"}, items : SeqsUpTo(JsonItems, MaxPairs) \cup {FullJsonItems},
          pad : {FALSE}]
    \cup [fmt : {"csv", "words"},
          items : { [k \in 1 .. n |-> IF k = bad THEN NotANumber
                                     ELSE IF k + first <= Len(Tokens) THEN Tokens[k + first]
                                     ELSE << "9" >>] :
                      n \in 1 .. MaxFields, bad \in 0 .. MaxFields, first \in 0 .. 1 },
          pad : BOOLEAN]
    \cup [fmt : {"raw"}, items : { << r >> : r \in RawLines }, pad : {FALSE}]

\* the line of a source; a padded line is as readline returns it
Render(src) ==
    LET Pair(item)   == item[1] \o << "=" >> \o item[2]
        Member(item) == << "\"" >> \o item[1] \o << "\"", ":", " " >> \o item[2]
        body ==
          CASE src.fmt = "key_value" ->
                 Join([k \in 1 .. Len(src.items) |-> Pair(src.items[k])], << "," >>)
            [] src.fmt = "json" ->
                 << "{" >>
                 \o Join([k \in 1 .. Len(src.items) |-> Member(src.items[k])],
                         << ",", " " >>)
                 \o << "}" >>
            [] src.fmt = "csv"   -> Join(src.items, << "," >>)
            [] src.fmt = "words" -> Join(src.items, << " " >>)
            [] OTHER             -> src.items[1]
    IN  IF src.pad THEN << " " >> \o body \o << "\r", "\n" >> ELSE body

\* ------------------------------------------------------------- the wire
\* bytes.decode('utf-8', errors='ignore') and what readline returns.  The
\* printable ASCII characters, from code 32 to 95:
Ascii == << " ", "!", "\"", "#", "$", "%", "&", "'", "(", ")", "*", "+", ",",
            "-", ".", "/", "0", "1", "2", "3", "4", "5", "6", "7", "8", "9",
            ":", ";", "<", "=", ">", "?", "@", "A", "B", "C", "D", "E", "F",
            "G", "H", "I", "J", "K", "L", "M", "N", "O", "P", "Q", "R", "S",
            "T", "U", "V", "W", "X", "Y", "Z", "[", "\\", "]", "^", "_" >>
\* and from code 123 on (the grave accent, code 96, is not in the alphabet
\* of the lines)
AsciiTail == << "{", "|", "}", "~" >>
Chr(b) ==
    IF b = 10 THEN "\n" ELSE IF b = 13 THEN "\r" ELSE IF b = 9 THEN "\t"
    ELSE IF b <= 95 THEN Ascii[b - 31]
    ELSE IF b <= 122 THEN LowerCase[b - 96]
    ELSE AsciiTail[b - 122]
Bytes(text) ==
    [i \in 1 .. Len(text) |->
        IF text[i] = "\n" THEN 10 ELSE IF text[i] = "\r" THEN 13
        ELSE IF text[i] = "\t" THEN 9
        ELSE IF IndexOf(text[i], Ascii) > 0 THEN IndexOf(text[i], Ascii) + 31
        ELSE IF IndexOf(text[i], LowerCase) > 0 THEN IndexOf(text[i], LowerCase) + 96
        ELSE IndexOf(text[i], AsciiTail) + 122]

\* Line 172.  A byte below 128 is its character; a byte that belongs to no
\* valid sequence is dropped.  (The lines on the wire hold no byte from 128
\* on other than 255, which no UTF-8 sequence contains.)
RECURSIVE Decode(_)
Decode(bytes) ==
    IF bytes = << >> THEN << >>
    ELSE IF Head(bytes) < 128 THEN << Chr(Head(bytes)) >> \o Decode(Tail(bytes))
    ELSE Decode(Tail(bytes))

\* the lines the device sends: one that is no Reading, with a stray byte,
\* and the delimited line of test_database.py cut to five fields
GarbageBytes == Bytes(<< "g", "a", "r" >>) \o << 255 >>
                    \o Bytes(<< "b", "a", "g", "e", "\n" >>)
ReadingBytes == Bytes(Join(SubSeq(Tokens, 1, 5), << "," >>) \o << "\r", "\n" >>)
WireLines    == { GarbageBytes, ReadingBytes }
\* save_sensor_data, line 63, on the text of each line (line 172)
sensor_data_of == [data \in WireLines |-> parse_sensor_data(Decode(data))]
\* readline returned b'' (a timeout)
EmptyRead == 0

\* ================================================================ Session
\* ------------------------------------------------------------------ Init
\* No line has been given to the decoder.
DecoderIdle ==
    /\ source = [fmt |-> "raw", items |-> << << >> >>, pad |-> FALSE]
    /\ line = << >>
    /\ sensor_data = PyNone
    /\ parsed = FALSE
    /\ db = [initialized |-> TRUE, log |-> << >>, committed |-> FALSE,
             ret |-> "pending"]

\* SerialManager.__init__
SessionInit ==
    /\ serial_connection = None
    /\ is_connected = FALSE
    /\ should_monitor_data = FALSE
    /\ data_monitoring_thread = None
    /\ data_callback = None
    /\ handleState = [h \in Handles |-> "unopened"]
    /\ closeCount = [h \in Handles |-> 0]
    /\ pc = [t \in Threads |-> "unstarted"]
    /\ held = [t \in Threads |-> None]
    /\ incoming_data = [t \in Threads |-> 0]
    /\ received = 0
    /\ delivered = <<>>
    /\ tx = NoWrite
    /\ callerPc = "idle"
    /\ call = [name |-> "__init__", arg |-> <<>>, ok |-> TRUE,
               pre |-> [connected |-> FALSE, conn |-> None, flag |-> FALSE,
                        started |-> 0, opened |-> 0],
               again |-> FALSE, ret |-> "None", closes |-> 0]
    /\ calls = 0
    /\ stopped = [t \in Threads |-> FALSE]
    /\ readsAfterStop = [t \in Threads |-> 0]
    /\ readFault = [t \in Threads |-> FALSE]
    /\ wire = << >>
    /\ stored = << >>
    /\ skippedEmpty = FALSE
    /\ scan = [platform |-> "linux", port_list |-> << >>, outcome |-> << >>,
               available_ports |-> << >>, open |-> {}, ret |-> "pending"]

Init == SessionInit /\ DecoderIdle

\* ------------------------------------------------------ set_data_callback
set_data_callback ==
    /\ UNCHANGED << decoderVars, lineVars, scan >>
    /\ callerPc = "idle"
    /\ data_callback' = Callback
    /\ UNCHANGED << serial_connection, is_connected, should_monitor_data,
                    data_monitoring_thread, handleVars, workerVars,
                    callerVars, stopped >>

\* ---------------------------------------------------------------- connect
\* Lines 109-111: the except clause of connect.
OpenFailed_set_true == [is_connected |-> TRUE, ret |-> "False"]

OpenFailed == [is_connected |-> FALSE, ret |-> "False"]

\* Lines 93 and 98: the selectors for which Serial(...) is called.
SupportedOs_any == OsTypes

SupportedOs == {OS_LINUX, OS_WINDOWS}

\* Lines 92-103 and 109-111: the selector test, Serial(...), the assignment
\* of the handle, and the two early returns.
connect_open(os_type, ok) ==
    /\ UNCHANGED << decoderVars, lineVars, scan >>
    /\ callerPc = "idle"
    /\ Begin
    /\ IF os_type \notin SupportedOs
       THEN /\ ok      \* Serial(...) is not called
            /\ call' = Return(NewCall("connect", << os_type >>, ok), "False")
            /\ UNCHANGED << sessionVars, handleVars, callerPc >>
       ELSE IF ~ok
       THEN /\ is_connected' = OpenFailed.is_connected
            /\ call' = Return(NewCall("connect", << os_type >>, ok),
                              OpenFailed.ret)
            /\ UNCHANGED << serial_connection, should_monitor_data,
                            data_monitoring_thread, data_callback,
                            handleVars, callerPc >>
       ELSE /\ NumOpened < MaxOpens
            /\ serial_connection' = NumOpened + 1
            /\ handleState' = [handleState EXCEPT ![NumOpened + 1] = "open"]
            /\ call' = NewCall("connect", << os_type >>, ok)
            /\ callerPc' = "connect_start"
            /\ UNCHANGED << is_connected, should_monitor_data,
                            data_monitoring_thread, data_callback, closeCount >>
    /\ UNCHANGED << workerVars, tx, stopped >>

\* Lines 150-157, _start_data_monitoring: the thread of this connect
start_data_monitoring(t) ==
    /\ should_monitor_data' = TRUE
    /\ data_monitoring_thread' = t
    /\ pc' = [pc EXCEPT ![t] = "check_flag"]

\* Lines 105-107: is_connected, _start_data_monitoring, return True.
connect_start ==
    /\ UNCHANGED << decoderVars, lineVars, scan >>
    /\ callerPc = "connect_start"
    /\ is_connected' = TRUE
    /\ start_data_monitoring(serial_connection)
    /\ call' = Return(call, "True")
    /\ callerPc' = "idle"
    /\ UNCHANGED << serial_connection, data_callback, handleVars, held,
                    incoming_data, received, delivered, readsAfterStop,
                    readFault, calls, tx, stopped >>

\* ------------------------------------------------------------- disconnect
\* Line 117 and the test of line 119; with no handle, line 128 and return.
disconnect_body(name) ==
    /\ UNCHANGED << decoderVars, lineVars, scan >>
    /\ should_monitor_data' = FALSE
    /\ stopped' = [t \in Threads |-> stopped[t] \/ Running(t)]
    /\ Begin
    /\ IF serial_connection # None
       THEN /\ call' = NewCall(name, <<>>, TRUE)
            /\ callerPc' = "disconnect_close"
            /\ UNCHANGED is_connected
       ELSE /\ is_connected' = FALSE
            /\ call' = Return(NewCall(name, <<>>, TRUE), "None")
            /\ UNCHANGED callerPc
    /\ UNCHANGED << serial_connection, data_monitoring_thread, data_callback,
                    handleVars, workerVars, tx >>

disconnect_stop ==
    /\ callerPc = "idle"
    /\ disconnect_body("disconnect")

\* Lines 120-124: close(), which succeeds or raises SerialException (caught).
disconnect_close(ok) ==
    /\ UNCHANGED << decoderVars, lineVars, scan >>
    /\ callerPc = "disconnect_close"
    /\ closeCount' = [closeCount EXCEPT ![serial_connection] = @ + 1]
    /\ handleState' = IF ok
                      THEN [handleState EXCEPT ![serial_connection] = "closed"]
                      ELSE handleState
    /\ call' = [call EXCEPT !.ok = ok, !.closes = @ + 1]
    /\ callerPc' = "disconnect_clear"
    /\ UNCHANGED << sessionVars, workerVars, calls, tx, stopped >>

\* Lines 125-126: the finally clause, run whether or not close() raised.
HandleAfterClose_kept(ok) == serial_connection

HandleAfterClose_in_try(ok) == IF ok THEN None ELSE serial_connection

HandleAfterClose(ok) == None

\* Lines 125-128: the finally clause, is_connected, return.
disconnect_clear ==
    /\ UNCHANGED << decoderVars, lineVars, scan >>
    /\ callerPc = "disconnect_clear"
    /\ serial_connection' = HandleAfterClose(call.ok)
    /\ is_connected' = FALSE
    /\ call' = Return(call, "None")
    /\ callerPc' = "idle"
    /\ UNCHANGED << should_monitor_data, data_monitoring_thread, data_callback,
                    handleVars, workerVars, calls, tx, stopped >>

\* ---------------------------------------------------------------- cleanup
cleanup ==
    /\ callerPc = "idle"
    /\ UNCHANGED << decoderVars, lineVars, scan >>
    /\ IF is_connected
       THEN disconnect_body("cleanup")
       ELSE /\ Begin
            /\ call' = Return(NewCall("cleanup", <<>>, TRUE), "None")
            /\ UNCHANGED << sessionVars, handleVars, workerVars, callerPc,
                            tx, stopped >>

\* ----------------------------------------------------------- send_command
\* Line 144: the argument of write.
Payload_newline(command) == Encode(command) \o << 10 >>

Payload(command) == Encode(command)

\* Lines 147-148: is_connected after write has raised; the except clause
\* assigns nothing.
AfterWriteFault_disconnected == FALSE

AfterWriteFault == is_connected

send_command(command, ok) ==
    /\ UNCHANGED << decoderVars, lineVars, scan >>
    /\ callerPc = "idle"
    /\ Begin
    /\ IF ~is_connected \/ serial_connection = None
       THEN /\ ok      \* write is not called
            /\ tx' = NoWrite
            /\ call' = Return(NewCall("send_command", command, ok), "False")
            /\ UNCHANGED is_connected
       ELSE IF ok
       THEN /\ tx' = [handle |-> serial_connection, bytes |-> Payload(command)]
            /\ call' = Return(NewCall("send_command", command, ok), "True")
            /\ UNCHANGED is_connected
       ELSE /\ tx' = NoWrite
            /\ call' = Return(NewCall("send_command", command, ok), "False")
            /\ is_connected' = AfterWriteFault
    /\ UNCHANGED << serial_connection, should_monitor_data,
                    data_monitoring_thread, data_callback, handleVars,
                    workerVars, callerPc, stopped >>

\* ---------------------------------------------------------- _monitor_data
\* Line 167, left operand.
monitor_check_flag(t) ==
    /\ UNCHANGED << decoderVars, lineVars, scan >>
    /\ pc[t] = "check_flag"
    /\ pc' = [pc EXCEPT ![t] = IF should_monitor_data THEN "check_conn" ELSE "done"]
    /\ UNCHANGED << sessionVars, handleVars, held, incoming_data, received,
                    delivered, readsAfterStop, readFault, callerVars, stopped >>

\* Line 167, right operand.
monitor_check_conn(t) ==
    /\ UNCHANGED << decoderVars, lineVars, scan >>
    /\ pc[t] = "check_conn"
    /\ pc' = [pc EXCEPT ![t] = IF serial_connection # None THEN "load" ELSE "done"]
    /\ UNCHANGED << sessionVars, handleVars, held, incoming_data, received,
                    delivered, readsAfterStop, readFault, callerVars, stopped >>

\* Line 169, self.serial_connection.readline: the attribute is read again;
\* on None the AttributeError is caught by neither except clause.
monitor_load(t) ==
    /\ UNCHANGED << decoderVars, lineVars, scan >>
    /\ pc[t] = "load"
    /\ IF serial_connection = None
       THEN /\ pc' = [pc EXCEPT ![t] = "crashed"]
            /\ UNCHANGED held
       ELSE /\ pc' = [pc EXCEPT ![t] = "read"]
            /\ held' = [held EXCEPT ![t] = serial_connection]
    /\ UNCHANGED << sessionVars, handleVars, incoming_data, received,
                    delivered, readsAfterStop, readFault, callerVars, stopped >>

\* What follows a SerialException raised by readline (lines 176-177).
OnReadFault_continue == "check_flag"

OnReadFault == "faulted"

\* What follows an empty read (lines 171 and 167).
OnEmptyRead_break == "done"

OnEmptyRead == "check_flag"

\* Line 169, the call: a line, a timeout (empty read), or SerialException;
\* a handle that has been closed raises (PortNotOpenError).
monitor_read(t, outcome) ==
    /\ UNCHANGED << decoderVars, scan >>
    /\ pc[t] = "read"
    /\ readsAfterStop' = [readsAfterStop EXCEPT
                            ![t] = IF stopped[t] /\ @ < 2 THEN @ + 1 ELSE @]
    /\ IF handleState[held[t]] # "open" \/ outcome = "fault"
       THEN /\ pc' = [pc EXCEPT ![t] = OnReadFault]
            /\ readFault' = [readFault EXCEPT ![t] = TRUE]
            /\ UNCHANGED << incoming_data, received, wire, skippedEmpty >>
       ELSE IF outcome = "line"
       THEN /\ received < MaxLines
            /\ received' = received + 1
            /\ \E data \in WireLines :
                  wire' = Append(wire, data)
            /\ incoming_data' = [incoming_data EXCEPT ![t] = received + 1]
            /\ pc' = [pc EXCEPT ![t] = "deliver"]
            /\ UNCHANGED << readFault, skippedEmpty >>
       ELSE /\ incoming_data' = [incoming_data EXCEPT ![t] = EmptyRead]
            /\ pc' = [pc EXCEPT ![t] = OnEmptyRead]
            /\ skippedEmpty' = (skippedEmpty \/ (received = 1 /\ Len(delivered) = 1))
            /\ UNCHANGED << received, readFault, wire >>
    /\ held' = [held EXCEPT ![t] = None]
    /\ UNCHANGED << sessionVars, handleVars, delivered, callerVars, stopped,
                    stored >>

\* DatabaseManager.save_sensor_data, line 64: what is handed to the database.
ShouldStore_always(data) == TRUE

ShouldStore(data) == data # PyNone

\* MizuSensorHub._handle_received_data: the text is queued for the display
\* and given to save_sensor_data, which parses it and, for a Reading, adds a
\* row; saved is false when the database was not initialized or the commit
\* failed.  Nothing it raises leaves save_sensor_data.
handle_received_data(id, saved) ==
    /\ delivered' = Append(delivered, id)
    /\ IF ShouldStore(sensor_data_of[wire[id]])
       THEN stored' = IF saved THEN Append(stored, id) ELSE stored
       ELSE saved /\ UNCHANGED stored

\* Lines 171-174: the callback, when one is registered.
monitor_deliver(t, saved) ==
    /\ UNCHANGED << decoderVars, scan >>
    /\ pc[t] = "deliver"
    /\ IF data_callback # None
       THEN handle_received_data(incoming_data[t], saved)
       ELSE saved /\ UNCHANGED << delivered, stored >>
    /\ incoming_data' = [incoming_data EXCEPT ![t] = 0]
    /\ pc' = [pc EXCEPT ![t] = "check_flag"]
    /\ UNCHANGED << sessionVars, handleVars, held, received, wire,
                    skippedEmpty, readsAfterStop, readFault, callerVars,
                    stopped >>

\* ------------------------------------------------------------------ Next
Next ==
    \/ set_data_callback
    \/ \E os_type \in OsTypes, ok \in BOOLEAN : connect_open(os_type, ok)
    \/ connect_start
    \/ disconnect_stop
    \/ \E ok \in BOOLEAN : disconnect_close(ok)
    \/ disconnect_clear
    \/ cleanup
    \/ \E command \in Commands, ok \in BOOLEAN : send_command(command, ok)
    \/ \E t \in Threads : monitor_check_flag(t)
    \/ \E t \in Threads : monitor_check_conn(t)
    \/ \E t \in Threads : monitor_load(t)
    \/ \E t \in Threads, outcome \in {"line", "timeout", "fault"} :
          monitor_read(t, outcome)
    \/ \E t \in Threads, saved \in BOOLEAN : monitor_deliver(t, saved)

Spec == Init /\ [][Next]_vars

TypeOK ==
    /\ serial_connection \in {None} \cup Handles
    /\ is_connected \in BOOLEAN
    /\ should_monitor_data \in BOOLEAN
    /\ data_monitoring_thread \in {None} \cup Threads
    /\ data_callback \in {None, Callback}
    /\ \A h \in Handles : handleState[h] \in {"unopened", "open", "closed"}
    /\ \A t \in Threads : pc[t] \in {"unstarted", "check_flag", "check_conn",
                                     "load", "read", "deliver", "done", "faulted",
                                     "crashed"}
    /\ received \in 0 .. MaxLines
    /\ calls \in 0 .. MaxCalls
    /\ callerPc \in {"idle", "connect_start", "disconnect_close", "disconnect_clear"}


\* ------------------------------------------------------------ DecoderSpec
\* The decoder on its own: a line is drawn, then parsed.
DecoderInit ==
    /\ SessionInit
    /\ source \in Sources
    /\ line = Render(source)
    /\ sensor_data = PyNone
    /\ parsed = FALSE
    /\ db \in [initialized : BOOLEAN, log : {<< >>}, committed : {FALSE},
                ret : {"pending"}]

parse_line ==
    /\ ~parsed
    /\ parsed' = TRUE
    /\ sensor_data' = parse_sensor_data(line)
    /\ UNCHANGED << source, line, db >>
    /\ UNCHANGED << sessionAll, scan >>

\* Lines 75-80: the calls on the session after add or commit has raised.
AfterCommitError_no_rollback == << "close" >>

AfterCommitError == << "rollback", "close" >>

\* DatabaseManager.save_sensor_data, lines 57-84, on the line.  The log is
\* the calls made on the session get_db_session returned.  get_db_session
\* can raise (line 68, caught at line 82); SensorData(...), add or commit
\* can raise (caught at line 75).  A rollback that raises reaches the
\* except clause of line 82 after the finally clause has closed the
\* session, with the same log and the same result.
save_sensor_data(session_ok, commit_ok) ==
    /\ ~parsed
    /\ db.ret = "pending"
    /\ IF ~db.initialized
       THEN /\ db' = [db EXCEPT !.ret = "False"]
            /\ UNCHANGED << sensor_data, parsed >>
       ELSE /\ parsed' = TRUE
            /\ sensor_data' = parse_sensor_data(line)
            /\ db' = IF ~ShouldStore(sensor_data') \/ ~session_ok
                     THEN [db EXCEPT !.ret = "False"]
                     ELSE IF commit_ok
                     THEN [db EXCEPT !.log = << "open", "add", "commit", "close" >>,
                                     !.committed = TRUE,
                                     !.ret = "True"]
                     ELSE [db EXCEPT !.log = << "open", "add", "commit" >>
                                                \o AfterCommitError,
                                     !.ret = "False"]
    /\ UNCHANGED << source, line >>
    /\ UNCHANGED << sessionAll, scan >>

DecoderNext ==
    \/ parse_line
    \/ \E session_ok, commit_ok \in BOOLEAN : save_sensor_data(session_ok, commit_ok)

DecoderSpec == DecoderInit /\ [][DecoderNext]_vars

\* ---------------------------------------------------------------- AppSpec
\* The session driven by the handlers of MizuSensorHub
\* (src/mizu_sensor_hub.py), which run one at a time on the main thread.
\* Line 160: the test of the toggle.
WantsDisconnect_while_loop_runs == is_connected /\ \E t \in Threads : Running(t)

WantsDisconnect == is_connected

\* Lines 153-197, _toggle_serial_connection: disconnect when connected;
\* otherwise connect, when validate_connection_settings accepts the
\* selector (src/error_handler.py, line 174).
toggle_serial_connection(os_type, ok) ==
    /\ data_callback # None
    /\ IF WantsDisconnect
       THEN disconnect_stop
       ELSE os_type \in {OS_WINDOWS, OS_LINUX} /\ connect_open(os_type, ok)

\* Lines 199-221, _send_serial_command: handle_command_validation wants a
\* connection and a command that is not empty.
send_serial_command(command, ok) ==
    /\ data_callback # None
    /\ is_connected
    /\ command # << >>
    /\ send_command(command, ok)

\* Lines 241-278, _handle_window_close: the disconnect of line 254 when
\* connected; the cleanup of line 275, which the user's confirmation lets
\* follow, finds the session disconnected.
handle_window_close ==
    /\ data_callback # None
    /\ IF is_connected THEN disconnect_stop ELSE cleanup

\* The handlers are bound after __init__ has registered the observer
\* (line 126), which is what data_callback # None says in each of them.
AppNext ==
    \/ set_data_callback
    \/ \E os_type \in OsTypes, ok \in BOOLEAN :
          toggle_serial_connection(os_type, ok)
    \/ \E command \in Commands, ok \in BOOLEAN :
          send_serial_command(command, ok)
    \/ handle_window_close
    \/ connect_start
    \/ \E ok \in BOOLEAN : disconnect_close(ok)
    \/ disconnect_clear
    \/ \E t \in Threads : monitor_check_flag(t)
    \/ \E t \in Threads : monitor_check_conn(t)
    \/ \E t \in Threads : monitor_load(t)
    \/ \E t \in Threads, outcome \in {"line", "timeout", "fault"} :
          monitor_read(t, outcome)
    \/ \E t \in Threads, saved \in BOOLEAN : monitor_deliver(t, saved)

AppSpec == Init /\ [][AppNext]_vars

\* --------------------------------------------------------------- ScanSpec
\* SerialManager.scan_available_ports on its own.  A candidate is a number:
\* the n of COMn, or the n-th device name glob can return.
MaxPorts == 3       \* candidates of one scan (MAX_COM_PORTS is 256)

\* Lines 58-67: the candidates.  On Windows COM1 to COMn in order; on Linux,
\* Cygwin and macOS what glob returns, any names in any order; on another
\* platform there is no list (EnvironmentError is raised).
PortLists(platform) ==
    IF platform = "win32" THEN { [n \in 1 .. MaxPorts |-> n] }
    ELSE IF platform \in {"linux", "cygwin", "darwin"}
    THEN { ports \in SeqsUpTo(1 .. MaxPorts, MaxPorts) :
             \A i, j \in 1 .. Len(ports) : i # j => ports[i] # ports[j] }
    ELSE {}

\* Lines 71-76: a candidate is appended when neither Serial(port_name) nor
\* close() raised OSError or SerialException.
Appended_before_close(outcome) == outcome # "open_fails"

Appended(outcome) == outcome = "ok"

\* Lines 58-78.  Each probe meets one of: Serial(...) raises; it returns a
\* handle and close() closes it; it returns a handle and close() raises,
\* which leaves the handle open.
scan_available_ports(platform) ==
    /\ scan.ret = "pending"        \* one scan is followed; it keeps no state
    /\ IF PortLists(platform) = {}
       THEN scan' = [platform |-> platform, port_list |-> << >>,
                     outcome |-> << >>, available_ports |-> << >>,
                     open |-> {}, ret |-> "EnvironmentError"]
       ELSE \E port_list \in PortLists(platform) :
            \E outcome \in [{port_list[i] : i \in 1 .. Len(port_list)}
                               -> {"ok", "open_fails", "close_fails"}] :
               scan' = [platform |-> platform, port_list |-> port_list,
                        outcome |-> outcome,
                        available_ports |->
                            SelectSeq(port_list, LAMBDA p : Appended(outcome[p])),
                        open |-> {p \in DOMAIN outcome : outcome[p] = "close_fails"},
                        ret |-> "list"]
    /\ UNCHANGED << sessionAll, decoderVars >>

ScanSpec ==
    Init /\ [][\E platform \in {"win32", "linux", "cygwin", "darwin", "sunos5"} :
                  scan_available_ports(platform)]_vars

\* ================================================================ claims
Returned(name) == call.name = name /\ callerPc = "idle"
Idle           == ~is_connected /\ serial_connection = None
WasIdle        == ~call.pre.connected /\ call.pre.conn = None
WasConnected   == call.pre.connected /\ call.pre.conn # None
Supported(c)   == c.arg[1] \in {OS_WINDOWS, OS_LINUX}
RunningLoops   == {t \in Threads : Running(t)}

\* C1: at most one receive loop is active at any time, and once the caller
\* is back from connect every handle opened has started exactly one loop.
C1_AtMostOneReceiveLoop ==
    /\ Cardinality(RunningLoops) <= 1
    /\ callerPc = "idle" => NumStarted = NumOpened

\* C2: a connect that finds the session Connected (here even with a
\* supported selector and a port that opens) returns True, leaves the held
\* handle in place, opens no handle and starts no loop.
C2_ConnectWhileConnectedIsNoOp ==
    (Returned("connect") /\ WasConnected /\ Supported(call) /\ call.ok)
        => /\ call.ret = "True"
           /\ serial_connection = call.pre.conn
           /\ NumOpened = call.pre.opened
           /\ NumStarted = call.pre.started

\* C3: no handle has close() called on it twice, and between calls every
\* handle that was opened and is no longer the session's has had close()
\* called on it once.
C3_HandleClosedExactlyOnce ==
    \A h \in Handles :
        /\ closeCount[h] <= 1
        /\ (callerPc = "idle" /\ handleState[h] # "unopened"
               /\ serial_connection # h) => closeCount[h] = 1

\* C4: a receive loop that was running when disconnect was called makes at
\* most one further readline call, whatever the caller does afterwards.
C4_StoppedLoopReadsAtMostOnce ==
    \A t \in Threads : readsAfterStop[t] <= 1

\* C5: the callback receives the lines in the order readline returned them.
C5_DeliveredInReceiveOrder ==
    \A i, j \in 1 .. Len(delivered) : i < j => delivered[i] < delivered[j]

\* C6: connect on an Idle session whose open raises returns False, does not
\* raise, leaves is_connected false and no handle held, opens no handle and
\* starts no loop.
C6_FailedConnectStaysIdle ==
    (Returned("connect") /\ WasIdle /\ Supported(call) /\ ~call.ok)
        => /\ call.ret = "False"
           /\ Idle
           /\ NumOpened = call.pre.opened
           /\ NumStarted = call.pre.started

C6_Witness ==
    /\ Returned("connect") /\ WasIdle /\ Supported(call) /\ ~call.ok
    /\ call.ret = "False"
    /\ closeCount[1] = 1        \* a session that has been used before

\* C7: disconnect on an Idle session, or right after another disconnect,
\* returns without raising, calls close() on no handle and leaves the
\* session Idle.
C7_DisconnectIdempotent ==
    (Returned("disconnect") /\ (WasIdle \/ call.again))
        => /\ call.ret = "None"
           /\ call.closes = 0
           /\ Idle

C7_Witness ==
    /\ Returned("disconnect") /\ call.again /\ call.closes = 0
    /\ closeCount[1] = 1        \* the disconnect before it closed a handle

C9_SendCommand ==
    Returned("send_command")
        => IF ~WasConnected
           THEN call.ret = "False" /\ tx = NoWrite
           ELSE IF call.ok
           THEN /\ call.ret = "True"
                /\ tx = [handle |-> call.pre.conn, bytes |-> Encode(call.arg)]
           ELSE call.ret = "False"

C9_Witness ==
    /\ Returned("send_command") /\ WasConnected /\ call.ok
    /\ call.arg = << 233, 10 >>
    /\ tx.bytes = << 195, 169, 10 >>

\* C10: a readline that raises SerialException ends its receive loop, and
\* the step in which it raises changes neither the session's attributes nor
\* the handles, delivers no line and leaves the caller's call untouched.
C10_ReadFaultEndsLoopOnly ==
    /\ [](\A t \in Threads : readFault[t] => pc[t] = "faulted")
    /\ [][\A t \in Threads :
            (~readFault[t] /\ readFault'[t])
                => UNCHANGED << sessionVars, handleVars, callerVars, delivered >>
         ]_vars

C10_Witness ==
    \E t \in Threads :
        /\ readFault[t]
        /\ is_connected
        /\ serial_connection = t
        /\ handleState[t] = "open"
        /\ callerPc = "idle"

\* ------------------------------------------------------- decoder claims
IsReading(d) == d # PyNone
HasBraces(s) == StartsWith(s, "{") /\ EndsWith(s, "}")

\* C13: the classification priority is braces-object, then '=', then ',',
\* then generic numeric, and the first rule that matches owns the line: the
\* result is that format's result, a failure included, and a line with both
\* '=' and ',' is parsed as key=value only.
C13_FirstMatchOwnsLine ==
    parsed =>
        LET s == Strip(line)
        IN  /\ HasBraces(s) => sensor_data = parse_json_format(s)
            /\ (~HasBraces(s) /\ Contains(s, "="))
                  => sensor_data = parse_key_value_format(s)
            /\ (~HasBraces(s) /\ ~Contains(s, "=") /\ Contains(s, ","))
                  => sensor_data = parse_csv_format(s)
            /\ (~HasBraces(s) /\ ~Contains(s, "=") /\ ~Contains(s, ","))
                  => sensor_data = parse_generic_format(s)

\* a line with '=' and ',' that fails as key=value though the delimited
\* format would have taken it
C13_Witness ==
    /\ parsed
    /\ Contains(line, "=") /\ Contains(line, ",")
    /\ ~IsReading(sensor_data)
    /\ IsReading(parse_csv_format(Strip(line)))

\* what a key=value source supplies: the keys as the line spells them,
\* compared without regard to case and surrounding blanks
KeyValueLine     == parsed /\ source.fmt = "key_value"
KeyAt(k)         == Lower(Strip(source.items[k][1]))
SuppliesDeviceId == \E k \in 1 .. Len(source.items) : KeyAt(k) = K_device_id
SuppliesSensor   ==
    \E k \in 1 .. Len(source.items) : \E n \in 2 .. 8 : KeyAt(k) = Keys[n]

\* C14 as stated: a key=value line fails if and only if it supplies neither
\* a device_id nor a recognized sensor key, and a line without device_id
\* yields a Reading whose device_id is "unknown".
C14_FailsOnlyWithNeither ==
    KeyValueLine =>
        /\ IsReading(sensor_data) <=> (SuppliesDeviceId \/ SuppliesSensor)
        /\ (IsReading(sensor_data) /\ ~SuppliesDeviceId)
              => sensor_data["device_id"] = PyStr(K_unknown)

\* C14: a key=value line yields a Reading if and only if it supplies both a
\* device_id and at least one recognized sensor key; with a device_id only,
\* or with sensor keys only, it fails.
C14_NeedsDeviceIdAndSensor ==
    KeyValueLine =>
        (IsReading(sensor_data) <=> (SuppliesDeviceId /\ SuppliesSensor))

\* a line with sensor keys and no device_id, which fails
C14_Witness ==
    /\ KeyValueLine
    /\ SuppliesSensor /\ ~SuppliesDeviceId
    /\ ~IsReading(sensor_data)

\* a sensor field of the result that is present
HasSensorValue(d) == \E f \in SensorFields : f \in DOMAIN d /\ d[f] # PyNone

\* the line itself names a device: a device_id member of the object, a
\* device_id pair, or the first field of a delimited line
LineSuppliesDeviceId ==
    LET s == Strip(line)
    IN  IF HasBraces(s)
        THEN /\ JsonLoads(s).ok
             /\ \E k \in 1 .. Len(JsonLoads(s).val) :
                    JsonLoads(s).val[k][1] = K_device_id
        ELSE IF Contains(s, "=")
        THEN \E k \in 1 .. Len(Split(s, ",")) :
                /\ Contains(Split(s, ",")[k], "=")
                /\ Lower(Strip(SplitOnce(Split(s, ",")[k], "=")[1])) = K_device_id
        ELSE Contains(s, ",")

\* C15: every Reading returned by parse has at least one sensor field
\* present or a device_id the line supplied; a line with neither is a
\* ParseFailure.
C15_ReadingHasSensorOrDeviceId ==
    (parsed /\ IsReading(sensor_data))
        => (HasSensorValue(sensor_data) \/ LineSuppliesDeviceId)

\* a structured-object source: its members as << key, value text >>
ObjectLine == parsed /\ source.fmt = "json"
\* the value text of the last member with key number n, << >> when no
\* member has that key (keys are compared as written)
MemberText(n) ==
    LET hits == {k \in 1 .. Len(source.items) : source.items[k][1] = Keys[n]}
    IN  IF hits = {} THEN << >>
        ELSE source.items[CHOOSE k \in hits : \A l \in hits : l <= k][2]
HasMember(n)  == \E k \in 1 .. Len(source.items) : source.items[k][1] = Keys[n]
IsQuoted(t)   == Len(t) >= 2 /\ t[1] = "\"" /\ t[Len(t)] = "\""
IsNumberText(t) == t # << >> /\ IsDigit(t[Len(t)]) /\ FloatOfStr(t) # ValueError
\* an object with a member that has no value is malformed
MissingValue  == \E k \in 1 .. Len(source.items) : source.items[k][2] = << >>

\* C16: a well-formed object line yields a Reading in which each of the
\* eight fields is the value of the member with the recognized key (a
\* string device_id, a number for a sensor), a field whose key is missing
\* is absent (device_id "unknown"), and members with other keys change
\* nothing; a malformed object is a ParseFailure (the raw lines in braces
\* are malformed, but for the two whose only member is an integer of more
\* than MaxFloatDigits digits, which no floating value holds).
C16_ObjectFieldsRecovered ==
    /\ (ObjectLine /\ MissingValue) => ~IsReading(sensor_data)
    /\ (ObjectLine /\ ~MissingValue) =>
          /\ IsReading(sensor_data)
          /\ ~HasMember(1) => sensor_data["device_id"] = PyStr(K_unknown)
          /\ (HasMember(1) /\ IsQuoted(MemberText(1))) =>
                sensor_data["device_id"]
                    = PyStr(SubSeq(MemberText(1), 2, Len(MemberText(1)) - 1))
          /\ \A n \in 2 .. 8 :
                /\ ~HasMember(n) => sensor_data[Fields[n]] = PyNone
                /\ (HasMember(n) /\ IsNumberText(MemberText(n))) =>
                      sensor_data[Fields[n]] = FloatOfStr(MemberText(n))
    /\ (/\ parsed /\ source.fmt = "raw" /\ HasBraces(line)
        /\ Len(line) > 2 /\ Len(line) <= MaxFloatDigits)
          => ~IsReading(sensor_data)

\* the object of test_database.py with all eight members, recovered
C16_Witness ==
    /\ ObjectLine
    /\ source.items = FullJsonItems
    /\ sensor_data["device_id"] = PyStr(<< "T", "E", "S", "T", "0", "0", "1" >>)
    /\ sensor_data["soil_temperature"] = PyFloat(221, -1)
    /\ sensor_data["longitude"] = PyFloat(-1224194, -4)

\* a delimited line: the object rule and the key=value rule have passed it
\* by (C13) and it has a ','; and the number of its comma-separated fields
DelimitedLine ==
    /\ parsed
    /\ ~HasBraces(Strip(line))
    /\ ~Contains(line, "=")
    /\ Contains(line, ",")
CommaFields == Len(Split(Strip(line), ","))
\* what the item at position n of a positional source stands for
ItemValue(n) ==
    IF n > Len(source.items) \/ source.items[n] = NotANumber THEN PyNone
    ELSE FloatOfStr(source.items[n])
\* the fields of the result are the items of the source by position
MappedByPosition ==
    /\ sensor_data["device_id"] = PyStr(source.items[1])
    /\ \A n \in 2 .. 8 : sensor_data[Fields[n]] = ItemValue(n)

\* C17: a delimited line (comma-separated, no '=') parses if and only if it
\* has at least 5 fields: 4 fail, exactly 5 succeed with wind_speed,
\* longitude and latitude absent, and the fields are mapped by position to
\* device_id, ambient_temp, humidity, soil_moisture, soil_temp, wind_speed,
\* longitude, latitude.
C17_DelimitedNeedsFive ==
    /\ DelimitedLine => (IsReading(sensor_data) <=> CommaFields >= 5)
    /\ (DelimitedLine /\ source.fmt = "csv" /\ IsReading(sensor_data))
          => MappedByPosition
    /\ (DelimitedLine /\ CommaFields = 5)
          => \A n \in 6 .. 8 : sensor_data[Fields[n]] = PyNone

\* the line of test_database.py cut to exactly five fields
C17_Witness ==
    /\ DelimitedLine /\ source.fmt = "csv"
    /\ CommaFields = 5
    /\ sensor_data["device_id"] = PyStr(<< "T", "2" >>)
    /\ sensor_data["ambient_temperature"] = PyFloat(261, -1)
    /\ sensor_data["soil_temperature"] = PyFloat(235, -1)
    /\ sensor_data["wind_speed"] = PyNone

\* a generic line: no rule before the fallback has taken it (C13)
GenericLine ==
    /\ parsed
    /\ ~HasBraces(Strip(line))
    /\ ~Contains(line, "=")
    /\ ~Contains(line, ",")
\* the signed decimals in the words of a source, in order: a number is
\* itself, the device token "T2" holds the number 2, "abc" holds none
RECURSIVE WordNumbers(_)
WordNumbers(items) ==
    IF items = << >> THEN << >>
    ELSE (IF Head(items) = NotANumber THEN << >>
          ELSE IF Head(items) = Tokens[1] THEN << << "2" >> >>
          ELSE << Head(items) >>) \o WordNumbers(Tail(items))
NumberAt(numbers, k) ==
    IF k > Len(numbers) THEN PyNone ELSE FloatOfStr(numbers[k])

\* C18: for a line with no '=' and no ',' the signed decimals are taken in
\* order of appearance; the parse succeeds if and only if there are at
\* least 4, the k-th number is ambient_temp, humidity, soil_moisture,
\* soil_temp, wind_speed, longitude, latitude for k = 1 .. 7, the fields
\* beyond the numbers found are absent, and device_id is "unknown".
C18_GenericNeedsFour ==
    /\ GenericLine =>
          /\ IsReading(sensor_data) <=> Len(FindNumbers(Strip(line), 1)) >= 4
          /\ IsReading(sensor_data) => sensor_data["device_id"] = PyStr(K_unknown)
    /\ (GenericLine /\ source.fmt = "words") =>
          /\ IsReading(sensor_data) <=> Len(WordNumbers(source.items)) >= 4
          /\ IsReading(sensor_data) =>
                \A n \in 2 .. 8 :
                    sensor_data[Fields[n]]
                        = NumberAt(WordNumbers(source.items), n - 1)

\* a line of exactly four numbers
C18_Witness ==
    /\ GenericLine /\ source.fmt = "words"
    /\ Len(WordNumbers(source.items)) = 4
    /\ sensor_data["device_id"] = PyStr(K_unknown)
    /\ sensor_data["ambient_temperature"] = PyFloat(261, -1)
    /\ sensor_data["soil_temperature"] = PyFloat(235, -1)
    /\ sensor_data["wind_speed"] = PyNone

\* the source with the keys of its pairs put through f
WithKeys(f(_)) ==
    [source EXCEPT !.items =
        [k \in 1 .. Len(source.items) |->
            << f(source.items[k][1]), source.items[k][2] >>]]

\* C19: in a key=value line the case of the keys is irrelevant: the line
\* parses to the same result as the line with every key in upper case and
\* as the line with every key in lower case.
C19_KeyCaseIrrelevant ==
    KeyValueLine =>
        /\ sensor_data = parse_sensor_data(Render(WithKeys(Upper)))
        /\ sensor_data = parse_sensor_data(Render(WithKeys(Lower)))

\* a line with a key spelled in upper case that yields a Reading, and is
\* not the same line as its lower-case form
C19_Witness ==
    /\ KeyValueLine
    /\ IsReading(sensor_data)
    /\ \E k \in 1 .. Len(source.items) :
          source.items[k][1] = Upper(K_device_id)
    /\ Render(WithKeys(Lower)) # line

\* ---- one value replaced by a token that is not a number
Quoted(t) == << "\"" >> \o t \o << "\"" >>
\* the item at position p is a sensor value that float() rejects
Replaced(p) ==
    /\ p \in 1 .. Len(source.items)
    /\ CASE source.fmt = "csv"       -> p >= 2 /\ source.items[p] = NotANumber
         [] source.fmt = "words"     -> source.items[p] = NotANumber
         [] source.fmt = "key_value" -> /\ source.items[p][2] = NotANumber
                                        /\ IndexOf(KeyAt(p), Keys) >= 2
         [] source.fmt = "json"      -> /\ source.items[p][2] = Quoted(NotANumber)
                                        /\ IndexOf(source.items[p][1], Keys) >= 2
         [] OTHER                    -> FALSE
\* the source before the replacement: a number in that place
Original(p) ==
    IF source.fmt \in {"csv", "words"}
    THEN [source EXCEPT !.items[p] = << "9" >>]
    ELSE [source EXCEPT !.items[p] = << source.items[p][1], << "9" >> >>]
\* the field the value at position p belongs to ("none" past the eighth)
FieldAt(p) ==
    CASE source.fmt = "csv"       -> Fields[p]
      [] source.fmt = "key_value" -> Fields[IndexOf(KeyAt(p), Keys)]
      [] source.fmt = "json"      -> Fields[IndexOf(source.items[p][1], Keys)]
      [] OTHER ->
           LET k == Len(WordNumbers(SubSeq(Original(p).items, 1, p)))
           IN  IF k + 1 <= 8 THEN Fields[k + 1] ELSE "none"
\* a later item sets the same field again
SetAgain(p) ==
    /\ source.fmt \in {"key_value", "json"}
    /\ \E k \in p + 1 .. Len(source.items) :
          IF source.fmt = "json" THEN source.items[k][1] = source.items[p][1]
          ELSE KeyAt(k) = KeyAt(p)
\* the result differs from the result d of the original line in the field
\* of position p only, and that field is absent
OnlyThatFieldAbsent(d, p) ==
    /\ IsReading(sensor_data)
    /\ DOMAIN sensor_data = DOMAIN d
    /\ \A f \in DOMAIN d \ {FieldAt(p)} : sensor_data[f] = d[f]
    /\ (FieldAt(p) \in DOMAIN d) =>
          sensor_data[FieldAt(p)] = IF SetAgain(p) THEN d[FieldAt(p)] ELSE PyNone

Ended(t)     == pc[t] \in {"done", "crashed", "faulted"}
LeftRead(t)  == pc[t] = "read" /\ pc'[t] # "read"
Delivers(t)  == pc[t] = "deliver" /\ pc'[t] # "deliver"
Lines(log)   == {log[i] : i \in 1 .. Len(log)}
IsReadingLine(id) == IsReading(sensor_data_of[wire[id]])

\* C11: a receive loop that has ended was stopped by a disconnect or had
\* its readline raise; an empty read takes the loop back to its test, and
\* so does every line, a Reading or not, after it has gone to the callback.
C11_LoopEndsOnlyByStopOrFault ==
    /\ [](\A t \in Threads :
            /\ pc[t] \in {"done", "crashed"} => stopped[t]
            /\ pc[t] = "faulted" => readFault[t])
    /\ [][\A t \in Threads :
            /\ (LeftRead(t) /\ ~readFault'[t])
                  => pc'[t] \in {"check_flag", "deliver"}
            /\ Delivers(t)
                  => /\ pc'[t] = "check_flag"
                     /\ data_callback # None
                           => delivered' = Append(delivered, incoming_data[t])
         ]_vars

\* one loop, still running and never stopped, has passed on a line that is
\* no Reading, then had an empty read, then delivered a Reading
C11_Witness ==
    /\ NumStarted = 1
    /\ \E t \in Threads : Running(t) /\ ~stopped[t]
    /\ wire = << GarbageBytes, ReadingBytes >>
    /\ ~IsReadingLine(1) /\ IsReadingLine(2)
    /\ skippedEmpty
    /\ delivered = << 1, 2 >>
    /\ stored = << 2 >>

WellFormed(d) ==
    /\ DOMAIN d \subseteq {Fields[k] : k \in 1 .. 8} \cup {"transmitted"}
    /\ \A f \in DOMAIN d :
          IF f = "device_id" THEN d[f][1] = "str"
          ELSE IF f = "transmitted" THEN d[f] = PyBool(FALSE)
          ELSE d[f] = PyNone \/ d[f][1] = "float"

\* C21: for every line _parse_sensor_data returns: the result is None or a
\* Reading (a dict of the known fields, device_id a str, every sensor field
\* a float or None), never an exception.
C21_ParseAlwaysReturns ==
    parsed => (sensor_data = PyNone \/ WellFormed(sensor_data))

\* a line on which float() raises an error that _safe_float does not catch
C21_Witness ==
    /\ parsed
    /\ Len(line) > MaxFloatDigits
    /\ Contains(line, "y")
    /\ sensor_data = PyNone

\* ------------------------------------------------------------- C22, C23
Scanned == scan.ret = "list"
OpenSucceeded(p) == scan.outcome[p] # "open_fails"

\* C22 as stated: the list returned holds exactly the candidates whose probe
\* open succeeded, in candidate order.
C22_ExactlyTheOpenable ==
    Scanned => scan.available_ports
                  = SelectSeq(scan.port_list, LAMBDA p : OpenSucceeded(p))

\* C22: the list returned holds exactly the candidates whose probe raised no
\* error, neither from the open nor from the close, in candidate order; a
\* probe that raises excludes its own candidate only, and on a supported
\* platform the scan always returns a list.
C22_ExactlyTheProbedClean ==
    /\ Scanned
         => scan.available_ports
               = SelectSeq(scan.port_list, LAMBDA p : scan.outcome[p] = "ok")
    /\ (scan.platform \in {"win32", "linux", "cygwin", "darwin"}
           /\ scan.ret # "pending") => Scanned

\* a scan in which the first probe cannot open, the second is clean and the
\* third opens and cannot close
C22_Witness ==
    /\ Scanned
    /\ Len(scan.port_list) = 3
    /\ scan.outcome[scan.port_list[1]] = "open_fails"
    /\ scan.outcome[scan.port_list[2]] = "ok"
    /\ scan.outcome[scan.port_list[3]] = "close_fails"
    /\ scan.available_ports = << scan.port_list[2] >>

\* C23: when the scan returns, no probe handle that was opened is still open.
C23_NoProbeHandleLeftOpen ==
    Scanned => scan.open = {}

\* ------------------------------------------------------------------- C24
\* C24: a connect whose selector is neither OS_WINDOWS nor OS_LINUX returns
\* False, opens no handle, starts no loop and leaves is_connected, the held
\* handle and the stop flag as they were.
C24_UnsupportedSelectorChangesNothing ==
    (Returned("connect") /\ ~Supported(call))
        => /\ call.ret = "False"
           /\ NumOpened = call.pre.opened
           /\ NumStarted = call.pre.started
           /\ is_connected = call.pre.connected
           /\ serial_connection = call.pre.conn
           /\ should_monitor_data = call.pre.flag

\* such a connect on a Connected session whose loop is running
C24_Witness ==
    /\ Returned("connect") /\ ~Supported(call) /\ call.ret = "False"
    /\ WasConnected /\ call.pre.flag
    /\ is_connected /\ should_monitor_data /\ serial_connection = 1
    /\ Running(1)

\* ------------------------------------------------------------------- C25
\* C25: once a disconnect that stopped a receive loop has returned, that
\* loop does not invoke the observer again, not even for a line it had
\* already read.
C25_NoDeliveryAfterStop ==
    [][\A t \in Threads :
          (Delivers(t) /\ stopped[t] /\ callerPc = "idle")
              => delivered' = delivered
      ]_vars

\* ------------------------------------------------------------------- C26
\* C26: no receive loop ends by an uncaught error, and the handle a loop
\* calls readline on is open.
C26_ReadsOnlyLiveHandle ==
    \A t \in Threads :
        /\ pc[t] # "crashed"
        /\ pc[t] = "read" => handleState[held[t]] = "open"

\* ------------------------------------------------------------------- C27
\* C27: between the caller's calls is_connected is true exactly when a
\* handle is held, and when it is false the stop flag is set.
C27_ConnectedIffHandleHeld ==
    callerPc = "idle"
        => /\ is_connected <=> serial_connection # None
           /\ ~is_connected => ~should_monitor_data

\* ------------------------------------------------------------------- C29
SendsCommand == calls' = calls + 1 /\ call'.name = "send_command"

\* C29: a send_command, whatever it returns, leaves is_connected, the held
\* handle, the stop flag, the observer, the handles and every receive loop
\* as they were.
C29_SendCommandChangesNoState ==
    [][SendsCommand
          => UNCHANGED << sessionVars, handleVars, workerVars, stopped >>]_vars

\* a send_command whose write raised, on a Connected session that is still
\* Connected and whose loop still runs
C29_Witness ==
    /\ Returned("send_command") /\ WasConnected /\ ~call.ok
    /\ call.ret = "False"
    /\ is_connected /\ serial_connection = 1 /\ should_monitor_data
    /\ pc[1] = "read"

\* ------------------------------------------------------------------- C30
Saved == db.ret # "pending"

\* C30: save_sensor_data returns True or False, True only when the record
\* was committed; a session is opened only when the manager is initialized
\* and the line is a Reading; every session opened is closed, last of all,
\* and when the commit failed it is rolled back before it is closed.
C30_SaveLeavesNoSessionOpen ==
    Saved
      => /\ db.ret \in {"True", "False"}
         /\ db.ret = "True" => db.committed
         /\ db.log # << >>
               => /\ db.initialized /\ parsed /\ IsReading(sensor_data)
                  /\ Head(db.log) = "open" /\ db.log[Len(db.log)] = "close"
                  /\ Cardinality({i \in 1 .. Len(db.log) :
                                     db.log[i] \in {"open", "close"}}) = 2
         /\ (db.log # << >> /\ ~db.committed)
               => /\ db.ret = "False"
                  /\ \E i \in 1 .. Len(db.log) - 1 :
                        db.log[i] = "rollback" /\ db.log[i + 1] = "close"

\* the delimited line of test_database.py, whose commit failed
C30_Witness ==
    /\ Saved /\ db.ret = "False" /\ ~db.committed
    /\ db.log = << "open", "add", "commit", "rollback", "close" >>
    /\ source.fmt = "csv" /\ ~source.pad
    /\ source.items = Tokens

\* ------------------------------------------------------------------- C28
ConnectBegins == calls' = calls + 1 /\ call'.name = "connect"

\* C28: under the application's handlers connect is called only on a
\* session that is not connected and holds no handle, and between handlers
\* is_connected is true exactly when a handle is held; a session whose
\* loop a read fault has ended is still connected, so that the next toggle
\* is a disconnect.
C28_AppConnectsOnlyWhenIdle ==
    /\ [][ConnectBegins => (~is_connected /\ serial_connection = None)]_vars
    /\ [](callerPc = "idle" => (is_connected <=> serial_connection # None))
    /\ [](\A t \in Threads :
             (readFault[t] /\ serial_connection = t /\ callerPc = "idle")
                 => is_connected)

\* a read fault ended the first loop, the toggle that followed closed the
\* first handle, and the toggle after that opened the second
C28_Witness ==
    /\ Returned("connect") /\ call.ret = "True"
    /\ readFault[1] /\ pc[1] = "faulted"
    /\ closeCount[1] = 1
    /\ serial_connection = 2
    /\ handleState = << "closed", "open" >>
====
